---------------------------- MODULE Spec2Model ----------------------------
(***************************************************************************)
(* A model of the two notebooks of the repository.                         *)
(*                                                                         *)
(*  - "Mean Normalization and Data Separation" (src/unnamed/part_000):     *)
(*    an integer array X is normalised column by column and its rows are   *)
(*    split into a training, a cross validation and a test set with        *)
(*    boolean masks over a random permutation of the row indices.          *)
(*  - "Part 3 - Training Neural Networks": the autograd example on a 2x2   *)
(*    tensor, one training step, then a training loop over the             *)
(*    mini-batches of a shuffling loader.                                  *)
(*                                                                         *)
(* A notebook is run cell by cell from top to bottom; `cell` (resp.        *)
(* `pc`) is the position of the run.  Arithmetic is exact: a mean is a     *)
(* rational [num, den], a standard deviation is the square root of a       *)
(* rational, [sq |-> rational], and an element of X_norm is the quotient   *)
(* [top |-> rational, bot |-> standard deviation], or NaN / Inf where the  *)
(* divisor is zero (the values IEEE division yields).  Rounding of the     *)
(* floating point operations is not modelled.                              *)
(***************************************************************************)
EXTENDS Integers, Sequences, FiniteSets, TLC

VARIABLES
    \* ---- notebook "Mean Normalization" ----
    cell,          \* the next cell to run
    X,             \* the data, rows x columns, 0-indexed like an ndarray
    ave_cols,      \* X.mean(axis=0)
    std_cols,      \* X.std(axis=0)
    X_norm,        \* (X - ave_cols) / std_cols
    mean_out,      \* what print(np.mean(X_norm)) shows
    row_indices,   \* np.random.permutation(X_norm.shape[0])
    X_train,       \* X_norm[row_indices < 600, :]
    X_crossVal,    \* X_norm[np.logical_and(row_indices > 600, row_indices <= 800), :]
    X_test,        \* X_norm[row_indices >= 800, :]
    \* ---- notebook "Training Neural Networks" ----
    pc,            \* the next statement to run
    weights,       \* model.parameters(), in thousandths
    grad,          \* the .grad of the parameters
    optimizer,     \* the optimizer in use: its learning rate, in thousandths
    loader,        \* the iterator of the for loop: its order and its position
    images,        \* the mini-batch in hand (images and labels)
    output,        \* model.forward(images)
    loss,          \* criterion(output, labels)
    e,             \* the epoch of the loop, from 0
    steps,         \* the step counter of the loop
    running_loss,  \* the loss summed since the last print or epoch start
    printed,       \* the lines printed by the loop
    calls,         \* the calls made on the mini-batch in hand, in order
    trained,       \* per mini-batch, the optimizer steps taken on it this epoch
    \* ---- notebook "Training Neural Networks", the autograd cells ----
    autograd_cell, \* the next autograd cell to run
    x,             \* torch.randn(2,2, requires_grad=True): its data and its .grad
    y,             \* x**2: its data and its grad_fn
    z,             \* y.mean(): its data and its grad_fn
    out            \* what the print calls on x.grad and x/2 have shown, in order

notebookVars == <<cell, X, ave_cols, std_cols, X_norm, mean_out, row_indices,
                  X_train, X_crossVal, X_test>>

trainVars == <<pc, weights, grad, optimizer, loader, images, output, loss,
               e, steps, running_loss, printed, calls, trained>>

autogradVars == <<autograd_cell, x, y, z, out>>

vars == <<cell, X, ave_cols, std_cols, X_norm, mean_out, row_indices,
          X_train, X_crossVal, X_test,
          pc, weights, grad, optimizer, loader, images, output, loss,
          e, steps, running_loss, printed, calls, trained,
          autograd_cell, x, y, z, out>>

-----------------------------------------------------------------------------
(* Bounds of the model *)

\* rows, columns and largest value of the arrays of the exhaustive runs
SmallRows == 2
SmallCols == 2
SmallMaxVal == 1
\* number of full-size (1000 x 20) arrays tried
NumBigX == 2
\* lower value of the full-size arrays
BigBase == 2500
\* the permutations tried are i |-> (a*i + b) % n, a <= MaxMult, b <= MaxOffset
MaxMult == 3
MaxOffset == 40
\* mini-batches per epoch, parameters of the network, and how far the
\* loader's shuffle can rotate the mini-batches
NumBatches == 45
NumParams == 2
MaxShift == 1
\* the entries of the tensor x are the integers of -MaxX..MaxX
MaxX == 1

(* Program constants *)

NumRows == 1000      \* np.random.randint(0,5001,(1000,20))
NumCols == 20
RandHigh == 5001     \* exclusive upper end of the random integers
TrainBelow == 600    \* row_indices < 600
CrossAbove == 600    \* row_indices > 600
CrossUpTo == 800     \* row_indices <= 800
TestFrom == 800      \* row_indices >= 800
epochs == 3
print_every == 40
LrFirst == 10        \* optim.SGD(model.parameters(), lr=0.01), in thousandths
LrLoop == 3          \* optim.SGD(model.parameters(), lr=0.003), in thousandths
TensorRows == 2      \* torch.randn(2,2, requires_grad=True)
TensorCols == 2

-----------------------------------------------------------------------------
(* ndarrays: a rank 1 array is a function on 0..n-1, a rank 2 array a      *)
(* function on 0..rows-1 of rank 1 arrays.                                 *)

NotRun == "not run"
NaN == [nan |-> TRUE]
Inf == [inf |-> TRUE]

Len1(v) == Cardinality(DOMAIN v)

\* A.shape of a rank 2 array, as the tuple (rows, columns)
Shape(A) == <<Len1(A), Len1(A[0])>>

RECURSIVE SumRange(_, _, _)
\* f[lo] + ... + f[hi], 0 for an empty range
SumRange(f, lo, hi) ==
    IF lo > hi THEN 0
    ELSE IF lo = hi THEN f[lo]
    ELSE LET mid == (lo + hi) \div 2
         IN  SumRange(f, lo, mid) + SumRange(f, mid + 1, hi)

\* the sum of the entries of a rank 1 array
Sum1(v) == SumRange(v, 0, Len1(v) - 1)

RECURSIVE GCD(_, _)
GCD(a, b) == IF b = 0 THEN a ELSE GCD(b, a % b)

Min(a, b) == IF a <= b THEN a ELSE b

\* the column c of A as a rank 1 array (axis 0 runs over the rows)
Column(A, c) == [r \in DOMAIN A |-> A[r][c]]

(* exact numbers *)
Rat(n, d) == [num |-> n, den |-> d]

\* integer minus rational
Sub(v, m) == Rat(v * m.den - m.num, m.den)

\* true division of a rational by a standard deviation; numpy follows IEEE
\* 754 on a zero divisor: 0/0 is nan, anything else over 0 is +-inf
Divide(a, s) ==
    IF s.sq.num = 0
    THEN (IF a.num = 0 THEN NaN ELSE Inf)
    ELSE [top |-> a, bot |-> s]

-----------------------------------------------------------------------------
(* Mean normalization *)

\* the mean of a rank 1 array of integers
Mean1(v) == LET n == Len1(v) IN Rat(Sum1(v), n)

\* the standard deviation of a rank 1 array of integers, as numpy computes
\* it: sqrt(mean(abs(x - x.mean())**2)), the mean of the squares dividing by
\* n - ddof.  The deviations share the denominator n, so the sum of their
\* squares is the sum of the squared numerators over n^2.
Std1(v, ddof) ==
    LET n == Len1(v)
        m == Mean1(v)
        dev2 == [r \in DOMAIN v |-> Sub(v[r], m).num * Sub(v[r], m).num]
        total == Sum1(dev2)
    IN  [sq |-> Rat(total, n * n * (n - ddof))]

\* the mean over the whole array: what X.mean() without axis=0 gives,
\* broadcast to one value per column
np_mean_flat(A) ==
    LET shape == Shape(A)
        rowSum == [r \in DOMAIN A |-> Sum1(A[r])]
        mean == Rat(Sum1(rowSum), shape[1] * shape[2])
    IN  [c \in DOMAIN A[0] |-> mean]

\* X.mean(axis=0): one mean per column, taken over the rows
np_mean_axis0(A) == [c \in DOMAIN A[0] |-> Mean1(Column(A, c))]

\* X.std(axis=0): one standard deviation per column, ddof=0
np_std_axis0(A) == [c \in DOMAIN A[0] |-> Std1(Column(A, c), 0)]

\* (X - ave_cols) / std_cols: broadcasting lines the rank 1 arrays up with
\* the last axis of X, so element [r][c] meets ave[c] and std[c]
MeanNormalize(A, ave, std) ==
    [r \in DOMAIN A |-> [c \in DOMAIN A[r] |-> Divide(Sub(A[r][c], ave[c]), std[c])]]

\* the elements of one column share their divisor; their sum is the sum of
\* the dividends over that divisor
ColumnTotal(Xn, c) ==
    LET tops == [r \in DOMAIN Xn |-> Xn[r][c].top.num]
    IN  [top |-> Rat(Sum1(tops), Xn[0][c].top.den), bot |-> Xn[0][c].bot]

\* np.mean(Xn) over all the elements: nan as soon as one element is nan
\* (inf when there is an inf and no nan; the infinities of one column have
\* the sign of their dividends, which is not followed here), else the sum,
\* kept as one term per column, over the number of elements
np_mean(Xn) ==
    LET elems == {Xn[r][c] : r \in DOMAIN Xn, c \in DOMAIN Xn[0]}
        shape == Shape(Xn)
    IN  IF NaN \in elems THEN NaN
        ELSE IF Inf \in elems THEN Inf
        ELSE [terms |-> [c \in DOMAIN Xn[0] |-> ColumnTotal(Xn, c)],
              count |-> shape[1] * shape[2]]

-----------------------------------------------------------------------------
(* Data separation *)

\* the permutations of 0..n-1 the model draws from
Multipliers(n) == {a \in 1..Min(MaxMult, n) : GCD(a, n) = 1}
Offsets(n) == 0..Min(MaxOffset, n - 1)
np_random_permutation(n) ==
    {[i \in 0..(n - 1) |-> (a * i + b) % n] : a \in Multipliers(n), b \in Offsets(n)}

\* the number of columns passed instead of the number of rows
PermutationSizeCols(Xn) == Shape(Xn)[2]

\* X_norm.shape[0], the argument of np.random.permutation
PermutationSize(Xn) == Shape(Xn)[1]

\* the boolean masks, one entry per entry of row_indices
TrainMaskInclusive(ri) == [i \in DOMAIN ri |-> ri[i] <= TrainBelow]

TrainMask(ri) == [i \in DOMAIN ri |-> ri[i] < TrainBelow]

CrossValMask(ri) == [i \in DOMAIN ri |-> ri[i] > CrossAbove /\ ri[i] <= CrossUpTo]

TestMask(ri) == [i \in DOMAIN ri |-> ri[i] >= TestFrom]

\* A[mask, :] keeps the rows of A at the positions where mask is True, all
\* columns.  The result is kept as the set of row positions taken and its
\* shape; its row k is the row of A at the k-th position taken.
MaskRows(A, mask) ==
    LET taken == {i \in DOMAIN mask : mask[i]}
    IN  [rows |-> taken, shape |-> <<Cardinality(taken), Shape(A)[2]>>]

-----------------------------------------------------------------------------
(* The data: np.random.randint(0, 5001, (rows, cols)) *)

RandomIntegers == 0..(RandHigh - 1)

SmallArrays ==
    [0..(SmallRows - 1) -> [0..(SmallCols - 1) -> RandomIntegers \cap 0..SmallMaxVal]]

\* full-size arrays with the values BigBase and BigBase + 1: array k has
\* its first k-1 columns constant
BigArray(k) ==
    [r \in 0..(NumRows - 1) |->
       [c \in 0..(NumCols - 1) |->
          IF c < k - 1 THEN BigBase ELSE BigBase + ((((r * (c + 1)) + k) % 3) % 2)]]
BigArrays == {A \in {BigArray(k) : k \in 1..NumBigX} :
                 \A r \in DOMAIN A : \A c \in DOMAIN A[r] : A[r][c] \in RandomIntegers}

InitRest ==
    /\ cell = "mean_std"
    /\ ave_cols = NotRun
    /\ std_cols = NotRun
    /\ X_norm = NotRun
    /\ mean_out = NotRun
    /\ row_indices = NotRun
    /\ X_train = NotRun
    /\ X_crossVal = NotRun
    /\ X_test = NotRun

\* the other notebook is not run
TrainIdle ==
    /\ pc = NotRun
    /\ weights = NotRun
    /\ grad = NotRun
    /\ optimizer = NotRun
    /\ loader = NotRun
    /\ images = NotRun
    /\ output = NotRun
    /\ loss = NotRun
    /\ e = NotRun
    /\ steps = NotRun
    /\ running_loss = NotRun
    /\ printed = NotRun
    /\ calls = NotRun
    /\ trained = NotRun

\* the autograd cells are not part of the run
AutogradIdle ==
    /\ autograd_cell = NotRun
    /\ x = NotRun
    /\ y = NotRun
    /\ z = NotRun
    /\ out = NotRun

InitNorm == X \in SmallArrays /\ InitRest /\ TrainIdle /\ AutogradIdle

InitSplit == X \in BigArrays /\ InitRest /\ TrainIdle /\ AutogradIdle

-----------------------------------------------------------------------------
(* The cells of the notebook *)

CellMeanStd ==
    /\ cell = "mean_std"
    /\ ave_cols' = np_mean_axis0(X)
    /\ std_cols' = np_std_axis0(X)
    /\ cell' = "normalize"
    /\ UNCHANGED <<X, X_norm, mean_out, row_indices, X_train, X_crossVal, X_test>>
    /\ UNCHANGED trainVars
    /\ UNCHANGED autogradVars

CellNormalize ==
    /\ cell = "normalize"
    /\ X_norm' = MeanNormalize(X, ave_cols, std_cols)
    /\ cell' = "verify"
    /\ UNCHANGED <<X, ave_cols, std_cols, mean_out, row_indices, X_train, X_crossVal, X_test>>
    /\ UNCHANGED trainVars
    /\ UNCHANGED autogradVars

CellVerify ==
    /\ cell = "verify"
    /\ mean_out' = np_mean(X_norm)
    /\ cell' = "permutation"
    /\ UNCHANGED <<X, ave_cols, std_cols, X_norm, row_indices, X_train, X_crossVal, X_test>>
    /\ UNCHANGED trainVars
    /\ UNCHANGED autogradVars

CellPermutation ==
    /\ cell = "permutation"
    /\ row_indices' \in np_random_permutation(PermutationSize(X_norm))
    /\ cell' = "split"
    /\ UNCHANGED <<X, ave_cols, std_cols, X_norm, mean_out, X_train, X_crossVal, X_test>>
    /\ UNCHANGED trainVars
    /\ UNCHANGED autogradVars

CellSplit ==
    /\ cell = "split"
    /\ X_train' = MaskRows(X_norm, TrainMask(row_indices))
    /\ X_crossVal' = MaskRows(X_norm, CrossValMask(row_indices))
    /\ X_test' = MaskRows(X_norm, TestMask(row_indices))
    /\ cell' = "done"
    /\ UNCHANGED <<X, ave_cols, std_cols, X_norm, mean_out, row_indices>>
    /\ UNCHANGED trainVars
    /\ UNCHANGED autogradVars

NextNotebook ==
    \/ CellMeanStd
    \/ CellNormalize
    \/ CellVerify
    \/ CellPermutation
    \/ CellSplit

SpecNorm == InitNorm /\ [][NextNotebook]_vars

SpecSplit == InitSplit /\ [][NextNotebook]_vars

-----------------------------------------------------------------------------
(* Training: the network, the optimizer and the loader                     *)
(*                                                                         *)
(* The network and the loss are library code; what the notebook relies on  *)
(* is that the output, the loss and the gradient are functions of the      *)
(* parameters and of the mini-batch.  The functions below stand for them.  *)
(* The parameters are integers counting thousandths, so that an update by  *)
(* lr * gradient with lr = 0.01 or 0.003 is exact.                         *)

Params == 1..NumParams
Batches == 1..NumBatches
InitValues == {-20, 30}

Zeros == [p \in Params |-> 0]

\* model.forward(images): the output remembers the parameters and the
\* mini-batch it was computed from (the autograd graph)
Forward(W, b) == [batch |-> b, at |-> W]

\* criterion(output, labels)
Criterion(o) ==
    [batch |-> o.batch, at |-> o.at,
     value |-> ((SumRange(o.at, 1, NumParams) + o.batch) % 4) + 1]

\* the gradient of the loss with respect to each parameter
Gradient(l) == [p \in Params |-> ((l.at[p] + l.batch + p) % 5) - 2]

\* zero_grad left out: the gradients are kept
ZeroGradKept(g) == g

\* optimizer.zero_grad(): every gradient that exists is set to zero
ZeroGrad(g) == IF g.none THEN g ELSE [none |-> FALSE, val |-> Zeros]

\* loss.backward(): the gradient is added to .grad (created when None)
Accumulate(g, dg) ==
    [none |-> FALSE,
     val |-> [p \in Params |-> (IF g.none THEN 0 ELSE g.val[p]) + dg[p]]]

\* a step that climbs the gradient: w <- w + lr * grad
SgdStepAscent(W, g, lr) ==
    IF g.none THEN W ELSE [p \in Params |-> W[p] + lr * g.val[p]]

\* optimizer.step() of SGD: w <- w - lr * grad, parameters without a
\* gradient are skipped
SgdStep(W, g, lr) ==
    IF g.none THEN W ELSE [p \in Params |-> W[p] - lr * g.val[p]]

\* iter(trainloader) with shuffle=True: a fresh order of the mini-batches
Shuffles ==
    {[k \in Batches |-> ((k - 1 + s) % NumBatches) + 1] :
        s \in 0..Min(MaxShift, NumBatches - 1)}
NewIterator == {[order |-> ord, idx |-> 0] : ord \in Shuffles}

\* range(epochs) taken one too far
InRangeInclusive(n) == n <= epochs

\* n in range(epochs)
InRange(n) == n < epochs

\* the loss is printed one step late
ShouldPrintLate(s) == s % print_every = 1

\* steps % print_every == 0
ShouldPrint(s) == s % print_every = 0

\* the optimizer step taken before the backward pass
AfterStepFirst(p) ==
    CASE p = "fetch_first" -> "first_zero_grad"
      [] p = "first_zero_grad" -> "first_forward"
      [] p = "first_forward" -> "first_loss"
      [] p = "first_loss" -> "first_backward"
      [] p = "first_backward" -> "first_step"
      [] p = "first_step" -> "new_optimizer"
      [] p = "new_optimizer" -> "loop_init"
      [] p = "loop_init" -> "epoch_head"
      [] p = "next_batch" -> "zero_grad"
      [] p = "zero_grad" -> "forward"
      [] p = "forward" -> "loss"
      [] p = "loss" -> "step"
      [] p = "step" -> "backward"
      [] p = "backward" -> "add_loss"
      [] p = "add_loss" -> "print"
      [] p = "print" -> "next_batch"
      [] p = "predict" -> "done"

\* the order of the statements in the notebook
After(p) ==
    CASE p = "fetch_first" -> "first_zero_grad"
      [] p = "first_zero_grad" -> "first_forward"
      [] p = "first_forward" -> "first_loss"
      [] p = "first_loss" -> "first_backward"
      [] p = "first_backward" -> "first_step"
      [] p = "first_step" -> "new_optimizer"
      [] p = "new_optimizer" -> "loop_init"
      [] p = "loop_init" -> "epoch_head"
      [] p = "next_batch" -> "zero_grad"
      [] p = "zero_grad" -> "forward"
      [] p = "forward" -> "loss"
      [] p = "loss" -> "backward"
      [] p = "backward" -> "step"
      [] p = "step" -> "add_loss"
      [] p = "add_loss" -> "print"
      [] p = "print" -> "next_batch"
      [] p = "predict" -> "done"

Call(op, b) == [op |-> op, batch |-> b]

NotebookIdle ==
    /\ cell = NotRun
    /\ X = NotRun
    /\ ave_cols = NotRun
    /\ std_cols = NotRun
    /\ X_norm = NotRun
    /\ mean_out = NotRun
    /\ row_indices = NotRun
    /\ X_train = NotRun
    /\ X_crossVal = NotRun
    /\ X_test = NotRun

\* what the names hold before they are bound (0: no mini-batch)
NoOutput == [batch |-> 0, at |-> Zeros]
NoLoss == [batch |-> 0, at |-> Zeros, value |-> 0]
NoIterator == [order |-> <<>>, idx |-> 0]

\* the network built, the criterion and the first optimizer made; steps, e
\* and running_loss are bound by the loop (they start as it binds them)
InitTrain ==
    /\ NotebookIdle
    /\ AutogradIdle
    /\ pc = "fetch_first"
    /\ weights \in [Params -> InitValues]
    /\ grad = [none |-> TRUE, val |-> Zeros]
    /\ optimizer = [lr |-> LrFirst]
    /\ loader = NoIterator
    /\ images = 0
    /\ output = NoOutput
    /\ loss = NoLoss
    /\ e = -1
    /\ steps = 0
    /\ running_loss = 0
    /\ printed = <<>>
    /\ calls = <<>>
    /\ trained = [b \in Batches |-> 0]

\* images, labels = next(iter(trainloader))
FetchFirst ==
    /\ pc = "fetch_first"
    /\ \E it \in NewIterator : images' = it.order[1]
    /\ calls' = <<>>
    /\ pc' = After(pc)
    /\ UNCHANGED <<weights, grad, optimizer, loader, output, loss, e, steps,
                   running_loss, printed, trained>>
    /\ UNCHANGED notebookVars
    /\ UNCHANGED autogradVars

\* optimizer.zero_grad()
ZeroGradCall ==
    /\ pc \in {"first_zero_grad", "zero_grad"}
    /\ grad' = ZeroGrad(grad)
    /\ calls' = Append(calls, Call("zero_grad", images))
    /\ pc' = After(pc)
    /\ UNCHANGED <<weights, optimizer, loader, images, output, loss, e, steps,
                   running_loss, printed, trained>>
    /\ UNCHANGED notebookVars
    /\ UNCHANGED autogradVars

\* output = model.forward(images)
ForwardCall ==
    /\ pc \in {"first_forward", "forward"}
    /\ output' = Forward(weights, images)
    /\ calls' = Append(calls, Call("forward", images))
    /\ pc' = After(pc)
    /\ UNCHANGED <<weights, grad, optimizer, loader, images, loss, e, steps,
                   running_loss, printed, trained>>
    /\ UNCHANGED notebookVars
    /\ UNCHANGED autogradVars

\* loss = criterion(output, labels)
LossCall ==
    /\ pc \in {"first_loss", "loss"}
    /\ loss' = Criterion(output)
    /\ calls' = Append(calls, Call("criterion", output.batch))
    /\ pc' = After(pc)
    /\ UNCHANGED <<weights, grad, optimizer, loader, images, output, e, steps,
                   running_loss, printed, trained>>
    /\ UNCHANGED notebookVars
    /\ UNCHANGED autogradVars

\* loss.backward()
BackwardCall ==
    /\ pc \in {"first_backward", "backward"}
    /\ grad' = Accumulate(grad, Gradient(loss))
    /\ calls' = Append(calls, Call("backward", loss.batch))
    /\ pc' = After(pc)
    /\ UNCHANGED <<weights, optimizer, loader, images, output, loss, e, steps,
                   running_loss, printed, trained>>
    /\ UNCHANGED notebookVars
    /\ UNCHANGED autogradVars

\* optimizer.step()
StepCall ==
    /\ pc \in {"first_step", "step"}
    /\ weights' = SgdStep(weights, grad, optimizer.lr)
    /\ calls' = Append(calls, Call("step", images))
    /\ trained' = [trained EXCEPT ![images] = @ + 1]
    /\ pc' = After(pc)
    /\ UNCHANGED <<grad, optimizer, loader, images, output, loss, e, steps,
                   running_loss, printed>>
    /\ UNCHANGED notebookVars
    /\ UNCHANGED autogradVars

\* optimizer = optim.SGD(model.parameters(), lr=0.003)
NewOptimizer ==
    /\ pc = "new_optimizer"
    /\ optimizer' = [lr |-> LrLoop]
    /\ pc' = After(pc)
    /\ UNCHANGED <<weights, grad, loader, images, output, loss, e, steps,
                   running_loss, printed, calls, trained>>
    /\ UNCHANGED notebookVars
    /\ UNCHANGED autogradVars

\* epochs = 3; print_every = 40; steps = 0.  e = -1: no epoch begun yet.
LoopInit ==
    /\ pc = "loop_init"
    /\ steps' = 0
    /\ e' = -1
    /\ running_loss' = 0
    /\ pc' = After(pc)
    /\ UNCHANGED <<weights, grad, optimizer, loader, images, output, loss,
                   printed, calls, trained>>
    /\ UNCHANGED notebookVars
    /\ UNCHANGED autogradVars

\* for e in range(epochs): running_loss = 0; ... in iter(trainloader)
EpochStart ==
    /\ pc = "epoch_head"
    /\ InRange(e + 1)
    /\ e' = e + 1
    /\ running_loss' = 0
    /\ loader' \in NewIterator
    /\ trained' = [b \in Batches |-> 0]
    /\ pc' = "next_batch"
    /\ UNCHANGED <<weights, grad, optimizer, images, output, loss, steps,
                   printed, calls>>
    /\ UNCHANGED notebookVars
    /\ UNCHANGED autogradVars

\* range(epochs) is exhausted: the loop is left
LoopExit ==
    /\ pc = "epoch_head"
    /\ ~InRange(e + 1)
    /\ pc' = "predict"
    /\ UNCHANGED <<weights, grad, optimizer, loader, images, output, loss, e,
                   steps, running_loss, printed, calls, trained>>
    /\ UNCHANGED notebookVars
    /\ UNCHANGED autogradVars

\* for images, labels in ...: steps += 1
NextBatch ==
    /\ pc = "next_batch"
    /\ loader.idx < NumBatches
    /\ images' = loader.order[loader.idx + 1]
    /\ loader' = [loader EXCEPT !.idx = @ + 1]
    /\ steps' = steps + 1
    /\ calls' = <<>>
    /\ pc' = After(pc)
    /\ UNCHANGED <<weights, grad, optimizer, output, loss, e, running_loss,
                   printed, trained>>
    /\ UNCHANGED notebookVars
    /\ UNCHANGED autogradVars

\* the loader is exhausted: the epoch ends
EpochEnd ==
    /\ pc = "next_batch"
    /\ loader.idx >= NumBatches
    /\ pc' = "epoch_head"
    /\ UNCHANGED <<weights, grad, optimizer, loader, images, output, loss, e,
                   steps, running_loss, printed, calls, trained>>
    /\ UNCHANGED notebookVars
    /\ UNCHANGED autogradVars

\* running_loss += loss.item()
AddLoss ==
    /\ pc = "add_loss"
    /\ running_loss' = running_loss + loss.value
    /\ pc' = After(pc)
    /\ UNCHANGED <<weights, grad, optimizer, loader, images, output, loss, e,
                   steps, printed, calls, trained>>
    /\ UNCHANGED notebookVars
    /\ UNCHANGED autogradVars

\* if steps % print_every == 0: print(...); running_loss = 0
PrintLoss ==
    /\ pc = "print"
    /\ ShouldPrint(steps)
    /\ printed' = Append(printed, [epoch |-> e + 1, of |-> epochs, at |-> steps,
                                   loss |-> Rat(running_loss, print_every)])
    /\ running_loss' = 0
    /\ pc' = After(pc)
    /\ UNCHANGED <<weights, grad, optimizer, loader, images, output, loss, e,
                   steps, calls, trained>>
    /\ UNCHANGED notebookVars
    /\ UNCHANGED autogradVars

NoPrint ==
    /\ pc = "print"
    /\ ~ShouldPrint(steps)
    /\ pc' = After(pc)
    /\ UNCHANGED <<weights, grad, optimizer, loader, images, output, loss, e,
                   steps, running_loss, printed, calls, trained>>
    /\ UNCHANGED notebookVars
    /\ UNCHANGED autogradVars

\* images, labels = next(iter(trainloader)); with torch.no_grad():
\* logits = model.forward(img)
Predict ==
    /\ pc = "predict"
    /\ \E it \in NewIterator :
          /\ images' = it.order[1]
          /\ output' = Forward(weights, it.order[1])
          /\ calls' = <<Call("forward", it.order[1])>>
    /\ pc' = After(pc)
    /\ UNCHANGED <<weights, grad, optimizer, loader, loss, e, steps,
                   running_loss, printed, trained>>
    /\ UNCHANGED notebookVars
    /\ UNCHANGED autogradVars

NextTrain ==
    \/ FetchFirst
    \/ ZeroGradCall
    \/ ForwardCall
    \/ LossCall
    \/ BackwardCall
    \/ StepCall
    \/ NewOptimizer
    \/ LoopInit
    \/ EpochStart
    \/ LoopExit
    \/ NextBatch
    \/ EpochEnd
    \/ AddLoss
    \/ PrintLoss
    \/ NoPrint
    \/ Predict

SpecTrain == InitTrain /\ [][NextTrain]_vars

\* the notebook runs on: a statement that can run does run
FairSpecTrain == SpecTrain /\ WF_vars(NextTrain)

-----------------------------------------------------------------------------
(* Autograd: the cells on x, y = x**2 and z = y.mean()                     *)
(*                                                                         *)
(* A tensor is its data, a rank 2 array of integers for x and y and a      *)
(* rational for z, with its .grad (for the leaf x) or its grad_fn (for the *)
(* results y and z).  A gradient is a rank 2 array of rationals.           *)

RatEq(a, b) == a.num * b.den = b.num * a.den

\* rational times integer
RatTimes(a, k) == Rat(a.num * k, a.den)

RatPlus(a, b) == Rat(a.num * b.den + b.num * a.den, a.den * b.den)

RECURSIVE IntPow(_, _)
IntPow(b, k) == IF k = 0 THEN 1 ELSE b * IntPow(b, k - 1)

\* the number of elements of a rank 2 array
Numel(A) == Shape(A)[1] * Shape(A)[2]

\* the sum of the elements of a rank 2 array
Sum2(A) == SumRange([i \in DOMAIN A |-> Sum1(A[i])], 0, Len1(A) - 1)

\* .grad of a tensor no gradient has been accumulated into: None
NoGrad == [none |-> TRUE]

\* torch.randn(rows, cols, requires_grad=True): any values
torch_randn(rows, cols) ==
    {[data |-> d, grad |-> NoGrad, requires_grad |-> TRUE] :
        d \in [0..(rows - 1) -> [0..(cols - 1) -> (-MaxX)..MaxX]]}

\* t**k, recording the operation that made it
Pow(t, k) ==
    [data |-> [i \in DOMAIN t.data |->
                  [j \in DOMAIN t.data[i] |-> IntPow(t.data[i][j], k)]],
     grad_fn |-> [name |-> "PowBackward0", exponent |-> k]]

\* t.mean() over all the elements, recording the operation that made it
TensorMean(t) ==
    [data |-> Rat(Sum2(t.data), Numel(t.data)),
     grad_fn |-> [name |-> "MeanBackward0", numel |-> Numel(t.data)]]

\* the gradient of a sum: the incoming gradient, handed to every element
SumBackward0(fn, up, input) ==
    [i \in DOMAIN input |-> [j \in DOMAIN input[i] |-> Rat(up, 1)]]

\* the gradient of a mean: the incoming gradient over the number of
\* elements, handed to every element of the input
MeanBackward0(fn, up, input) ==
    [i \in DOMAIN input |-> [j \in DOMAIN input[i] |-> Rat(up, fn.numel)]]

\* the gradient of a power: incoming * k * input**(k-1), element by element
PowBackward0(fn, up, input) ==
    [i \in DOMAIN input |->
        [j \in DOMAIN input[i] |->
            RatTimes(up[i][j],
                     fn.exponent * IntPow(input[i][j], fn.exponent - 1))]]

\* a gradient reaching a leaf is added to its .grad, a .grad of None
\* standing for zero; a leaf that does not require a gradient is skipped
AccumulateGrad(t, g) ==
    IF ~t.requires_grad THEN t
    ELSE IF t.grad.none THEN [t EXCEPT !.grad = [none |-> FALSE, val |-> g]]
    ELSE [t EXCEPT !.grad =
             [none |-> FALSE,
              val |-> [i \in DOMAIN g |->
                          [j \in DOMAIN g[i] |->
                              RatPlus(t.grad.val[i][j], g[i][j])]]]]

\* zt.backward() for the scalar zt made from yt made from the leaf xt: the
\* gradient 1 of zt is passed down the recorded operations to xt
Backward(zt, yt, xt) ==
    AccumulateGrad(xt,
        PowBackward0(yt.grad_fn,
                     MeanBackward0(zt.grad_fn, 1, yt.data),
                     xt.data))

\* t / k, element by element
TrueDivide(t, k) ==
    [i \in DOMAIN t.data |->
        [j \in DOMAIN t.data[i] |-> Rat(t.data[i][j], k)]]

InitAutograd ==
    /\ NotebookIdle
    /\ TrainIdle
    /\ autograd_cell = "x"
    /\ x = NotRun
    /\ y = NotRun
    /\ z = NotRun
    /\ out = <<>>

\* x = torch.randn(2,2, requires_grad=True)
CellX ==
    /\ autograd_cell = "x"
    /\ x' \in torch_randn(TensorRows, TensorCols)
    /\ autograd_cell' = "y"
    /\ UNCHANGED <<y, z, out>>
    /\ UNCHANGED notebookVars
    /\ UNCHANGED trainVars

\* y = x**2
CellY ==
    /\ autograd_cell = "y"
    /\ y' = Pow(x, 2)
    /\ autograd_cell' = "z"
    /\ UNCHANGED <<x, z, out>>
    /\ UNCHANGED notebookVars
    /\ UNCHANGED trainVars

\* z = y.mean()
CellZ ==
    /\ autograd_cell = "z"
    /\ z' = TensorMean(y)
    /\ autograd_cell' = "print_grad"
    /\ UNCHANGED <<x, y, out>>
    /\ UNCHANGED notebookVars
    /\ UNCHANGED trainVars

\* print(x.grad)
CellPrintGrad ==
    /\ autograd_cell = "print_grad"
    /\ out' = Append(out, x.grad)
    /\ autograd_cell' = "backward"
    /\ UNCHANGED <<x, y, z>>
    /\ UNCHANGED notebookVars
    /\ UNCHANGED trainVars

\* z.backward(); print(x.grad); print(x/2)
CellBackward ==
    /\ autograd_cell = "backward"
    /\ x' = Backward(z, y, x)
    /\ out' = Append(Append(out, x'.grad), TrueDivide(x', 2))
    /\ autograd_cell' = "done"
    /\ UNCHANGED <<y, z>>
    /\ UNCHANGED notebookVars
    /\ UNCHANGED trainVars

NextAutograd ==
    \/ CellX
    \/ CellY
    \/ CellZ
    \/ CellPrintGrad
    \/ CellBackward

SpecAutograd == InitAutograd /\ [][NextAutograd]_vars

-----------------------------------------------------------------------------
(* Properties of the data separation (full-size arrays, SpecSplit) *)

Separated == cell = "done"

\* the row positions of X_norm
RowPositions == 0..(Shape(X_norm)[1] - 1)

\* the position holding the given value of the permutation
PositionOf(v) == CHOOSE i \in DOMAIN row_indices : row_indices[i] = v

\* C1: once the three sets are made, no row position of X_norm belongs to
\* more than one of X_train, X_crossVal and X_test.
C1_NoRowPickedTwice ==
    Separated =>
        /\ X_train.rows \cap X_crossVal.rows = {}
        /\ X_train.rows \cap X_test.rows = {}
        /\ X_crossVal.rows \cap X_test.rows = {}

\* C2: once the three sets are made, every row position of X_norm belongs
\* to at least one of X_train, X_crossVal and X_test.
C2_AllRowsChosen ==
    Separated =>
        RowPositions \subseteq (X_train.rows \cup X_crossVal.rows \cup X_test.rows)

\* C3: X_train has 600 rows, X_crossVal 200 and X_test 200, each with the
\* 20 columns of X_norm, whatever the permutation.
C3_SetShapes ==
    Separated =>
        /\ Shape(X_norm) = <<1000, 20>>
        /\ X_train.shape = <<600, Shape(X_norm)[2]>>
        /\ X_crossVal.shape = <<200, Shape(X_norm)[2]>>
        /\ X_test.shape = <<200, Shape(X_norm)[2]>>

\* C3 witness: the sets were made from a permutation that is not the
\* identity, and the rows at the two boundary values went where the masks
\* put them (600 nowhere, 800 twice).
C3_Witness ==
    /\ Separated
    /\ row_indices[0] # 0
    /\ row_indices[1] # row_indices[0] + 1
    /\ PositionOf(600) \notin X_train.rows \cup X_crossVal.rows \cup X_test.rows
    /\ PositionOf(800) \in X_crossVal.rows \cap X_test.rows
    /\ X_train.shape[1] = 600

\* C10: row_indices has N = X_norm.shape[0] entries, at the positions
\* 0..N-1, and its values are exactly the integers 0..N-1; N entries with N
\* distinct values means every integer of 0..N-1 occurs exactly once.
C10_RowIndicesIsPermutation ==
    cell \in {"split", "done"} =>
        LET N == Shape(X_norm)[1]
            values == {row_indices[i] : i \in DOMAIN row_indices}
        IN  /\ DOMAIN row_indices = 0..(N - 1)
            /\ Len1(row_indices) = N
            /\ values = 0..(N - 1)
            /\ Cardinality(values) = N

\* C10 witness: a permutation of the 1000 row indices that moves its entries
C10_Witness ==
    /\ cell = "split"
    /\ Shape(X_norm)[1] = 1000
    /\ row_indices[0] = 7
    /\ row_indices[1] = 10

-----------------------------------------------------------------------------
(* Properties of the mean normalization (all small arrays, SpecNorm) *)

Normalized == cell \in {"verify", "permutation", "split", "done"}

IsNumber(q) == "top" \in DOMAIN q

ColSum(c) == Sum1([r \in DOMAIN X |-> X[r][c]])
ColSumSq(c) == Sum1([r \in DOMAIN X |-> X[r][c] * X[r][c]])

\* mu_c = ColSum(c) / R and sigma_c^2 = E[x^2] - mu_c^2
\*      = (R * ColSumSq(c) - ColSum(c)^2) / R^2, R the number of rows.
\* q = (v - mu_c) / sigma_c: the quotient IEEE arithmetic gives, nan where
\* sigma_c = 0 (then v = mu_c and the quotient is 0/0); else the dividend of
\* q is v - mu_c and the square of its divisor sigma_c^2, as rationals.
IsNormalizedValue(q, v, c) ==
    LET R == Len1(X)
        S == ColSum(c)
        V == R * ColSumSq(c) - S * S
    IN  IF V = 0 THEN q = NaN
        ELSE /\ IsNumber(q)
             /\ q.top.den > 0
             /\ q.top.num * R = (R * v - S) * q.top.den
             /\ q.bot.sq.den > 0
             /\ q.bot.sq.num * R * R = V * q.bot.sq.den

\* C8: X_norm has the shape of X and X_norm[r,c] = (X[r,c] - mu_c) / sigma_c
\* with the mean and the standard deviation of column c over all the rows.
C8_MeanNormalizationFormula ==
    Normalized =>
        /\ Shape(X_norm) = Shape(X)
        /\ DOMAIN X_norm = DOMAIN X
        /\ \A r \in DOMAIN X : \A c \in DOMAIN X[r] :
               IsNormalizedValue(X_norm[r][c], X[r][c], c)

\* C8 witness: a normalised array with two columns of non-zero standard
\* deviation, one rising and one falling from row 0 to row 1
C8_Witness ==
    /\ cell = "verify"
    /\ IsNumber(X_norm[0][0])
    /\ IsNumber(X_norm[0][1])
    /\ X_norm[0][0].top.num < 0
    /\ X_norm[1][0].top.num > 0
    /\ X_norm[0][1].top.num > 0
    /\ X_norm[1][1].top.num < 0

\* the mean printed is zero: a number, every term of whose sum is zero
IsZeroMean(m) ==
    /\ "terms" \in DOMAIN m
    /\ \A c \in DOMAIN m.terms : m.terms[c].top.num = 0

\* C9: for every X the centred values of each column sum to zero and the
\* average of all the elements of X_norm is zero.
C9_AverageIsZero ==
    cell \in {"permutation", "split", "done"} =>
        /\ \A c \in DOMAIN X[0] :
               Sum1([r \in DOMAIN X |-> Sub(X[r][c], ave_cols[c]).num]) = 0
        /\ IsZeroMean(mean_out)

\* C13: for every array of integers of 0..5000 no column has standard
\* deviation zero, and no element of X_norm comes from a division by zero.
\* Stated for the arrays of either specification; the full-size arrays of
\* SpecSplit include one whose column 0 holds the same value in all 1000 rows.
C13_NoZeroStd ==
    /\ cell \notin {"mean_std"} =>
           \A c \in DOMAIN std_cols : std_cols[c].sq.num # 0
    /\ Normalized =>
           \A r \in DOMAIN X_norm : \A c \in DOMAIN X_norm[r] :
               IsNumber(X_norm[r][c])

-----------------------------------------------------------------------------
(* Properties of the training notebook (SpecTrain) *)

FirstStepPcs == {"first_zero_grad", "first_forward", "first_loss",
                 "first_backward", "first_step"}
\* inside an iteration of the loop: steps counts the mini-batch in hand
BodyPcs == {"zero_grad", "forward", "loss", "backward", "step", "add_loss", "print"}
LoopPcs == BodyPcs \cup {"epoch_head", "next_batch"}
AfterLoopPcs == {"predict", "done"}

IsPrefix(s, t) == Len(s) <= Len(t) /\ \A k \in 1..Len(s) : s[k] = t[k]

\* the calls of one iteration on mini-batch b, in the order of the text
IterationCalls(b) ==
    <<Call("zero_grad", b), Call("forward", b), Call("criterion", b),
      Call("backward", b), Call("step", b)>>

\* C4: in the single training step and in every iteration of every epoch
\* the calls on the mini-batch in hand are made in the order zero_grad,
\* forward, criterion, backward, step; the iteration makes them all; and a
\* step is always preceded by a backward pass on the same mini-batch with no
\* zero_grad in between and a zero_grad before it.
C4_CallOrder ==
    pc \in FirstStepPcs \cup LoopPcs \cup {"new_optimizer", "loop_init"} =>
        /\ IsPrefix(calls, IterationCalls(images))
        /\ pc \in {"new_optimizer", "loop_init", "add_loss", "print"} =>
               calls = IterationCalls(images)
        /\ \A k \in 1..Len(calls) :
               calls[k].op = "step" =>
                   \E j \in 1..(k - 1) :
                       /\ calls[j] = Call("backward", calls[k].batch)
                       /\ \A m \in (j + 1)..k : calls[m].op # "zero_grad"
                       /\ \E i \in 1..(j - 1) : calls[i].op = "zero_grad"

\* C4 witness: an iteration of the last epoch has made its five calls
C4_Witness ==
    /\ pc = "add_loss"
    /\ e = epochs - 1
    /\ steps > 2 * NumBatches
    /\ Len(calls) = 5
    /\ calls[5] = Call("step", images)

\* the mini-batches whose iteration is over
Completed == IF pc \in BodyPcs THEN steps - 1 ELSE steps

\* C5: the k-th line is printed at step k * print_every, there are as many
\* lines as multiples of print_every among the iterations that are over, and
\* steps is the number of mini-batches fetched since the loop began, over all
\* epochs: 1 more per mini-batch, never reset.
C5_PrintEveryFortySteps ==
    /\ pc \notin LoopPcs \cup AfterLoopPcs => printed = <<>>
    /\ pc \in LoopPcs \cup AfterLoopPcs =>
        /\ Len(printed) = Completed \div print_every
        /\ \A k \in 1..Len(printed) : printed[k].at = k * print_every
        /\ pc \in BodyPcs \cup {"next_batch"} =>
               steps = e * NumBatches + loader.idx
        /\ pc \notin BodyPcs \cup {"next_batch"} =>
               steps = (e + 1) * NumBatches

\* C5 witness: the loop is over, lines were printed in the first and in a
\* later epoch, the later one not at a multiple of print_every within its
\* epoch
C5_Witness ==
    /\ pc = "done"
    /\ Len(printed) >= 2
    /\ printed[1].epoch = 1
    /\ printed[2].epoch = 2
    /\ (printed[2].at - NumBatches) % print_every # 0

\* the counts of the loop: at the start of epoch n (from 0) steps = n * B; at
\* most one optimizer step is taken on a mini-batch in an epoch and exactly
\* one by the end of the epoch; the loop is left with steps = epochs * B
\* after the last epoch
C6_Inv ==
    /\ pc = "epoch_head" =>
        /\ steps = (e + 1) * NumBatches
        /\ e >= 0 => \A b \in Batches : trained[b] = 1
    /\ pc \in BodyPcs \cup {"next_batch"} =>
        /\ e \in 0..(epochs - 1)
        /\ steps <= epochs * NumBatches
        /\ \A b \in Batches : trained[b] <= 1
        /\ pc = "next_batch" =>
               {b \in Batches : trained[b] = 1} =
               {loader.order[k] : k \in 1..loader.idx}
    /\ pc \in AfterLoopPcs =>
        /\ steps = epochs * NumBatches
        /\ e = epochs - 1
        /\ \A b \in Batches : trained[b] = 1

\* C6: with a loader of B mini-batches the loop takes each mini-batch once
\* per epoch, starts epoch n with steps = n * B, and terminates: the run
\* reaches its end, the loop left after epochs * B iterations with
\* steps = epochs * B.
C6_LoopTerminates == []C6_Inv /\ <>(pc = "done")

\* C6 witness: the loop was left after the last epoch
C6_Witness ==
    /\ pc = "predict"
    /\ steps = epochs * NumBatches
    /\ loader.idx = NumBatches
    /\ loader.order[1] # 1

\* C7: when optimizer.step is about to run, the gradient is the gradient of
\* the loss of the mini-batch in hand at the current parameters, nothing
\* added to it; before the backward pass the gradients are absent or zero.
C7_GradientOfCurrentBatchOnly ==
    /\ pc \in {"first_step", "step"} =>
        /\ ~grad.none
        /\ grad.val = Gradient(Criterion(Forward(weights, images)))
    /\ pc \in {"first_forward", "first_loss", "first_backward",
               "forward", "loss", "backward"} =>
        (grad.none \/ grad.val = Zeros)

\* C7 witness: a step of the loop is about to consume a non-zero gradient,
\* the gradients left by the iteration before having been non-zero too
C7_Witness ==
    /\ pc = "step"
    /\ steps = 2
    /\ \A p \in Params : grad.val[p] # 0
    /\ \A p \in Params :
           Gradient(Criterion(Forward(
               [q \in Params |-> weights[q] + optimizer.lr], images)))[p] # 0

\* what a transition out of an optimizer.step() statement does to the weights
StepDescends ==
    pc \in {"first_step", "step"} =>
        /\ ~grad.none
        /\ \A p \in Params :
               /\ weights'[p] = weights[p] - optimizer.lr * grad.val[p]
               /\ grad.val[p] = 0 => weights'[p] = weights[p]
               /\ grad.val[p] > 0 => weights'[p] < weights[p]
               /\ grad.val[p] < 0 => weights'[p] > weights[p]

\* C12: one optimizer step replaces every weight w by w - alpha * grad(w),
\* alpha the learning rate of the optimizer in use: a weight whose gradient
\* is zero is left unchanged, a weight whose gradient is positive decreases
\* and a weight whose gradient is negative increases.
C12_WeightUpdate == [][StepDescends]_vars

\* C12 witness: the single training step has been taken with the first
\* optimizer; one weight had gradient zero and still has its initial value,
\* another had a positive gradient and has moved below every initial value
\* it could have had by the whole of alpha * grad
C12_Witness ==
    /\ pc = "new_optimizer"
    /\ optimizer.lr = LrFirst
    /\ \E p \in Params : grad.val[p] = 0 /\ weights[p] \in InitValues
    /\ \E q \in Params :
           /\ grad.val[q] > 0
           /\ weights[q] + LrFirst * grad.val[q] \in InitValues

-----------------------------------------------------------------------------
(* Properties of the autograd cells (SpecAutograd) *)

TensorIndices == (0..(TensorRows - 1)) \X (0..(TensorCols - 1))

\* C11: x.grad is None before z.backward() is run, and print(x.grad) shows
\* None; after z.backward(), with z the mean of x**2 over the 2x2 tensor x,
\* x.grad equals x/2 element by element, and so do the two tensors printed.
C11_GradIsHalfX ==
    /\ autograd_cell \in {"y", "z", "print_grad", "backward"} => x.grad.none
    /\ autograd_cell \in {"backward", "done"} => out[1] = NoGrad
    /\ autograd_cell = "done" =>
        /\ ~x.grad.none
        /\ Len(out) = 3
        /\ out[2] = x.grad
        /\ \A ij \in TensorIndices :
               /\ RatEq(x.grad.val[ij[1]][ij[2]], Rat(x.data[ij[1]][ij[2]], 2))
               /\ RatEq(out[2].val[ij[1]][ij[2]], out[3][ij[1]][ij[2]])

\* C11 witness: z.backward() has run on a tensor with a negative, a zero
\* and a positive element, and left a gradient that is not zero everywhere
C11_Witness ==
    /\ autograd_cell = "done"
    /\ ~x.grad.none
    /\ \E ij \in TensorIndices : x.data[ij[1]][ij[2]] < 0
    /\ \E ij \in TensorIndices : x.data[ij[1]][ij[2]] = 0
    /\ \E ij \in TensorIndices : x.data[ij[1]][ij[2]] > 0
    /\ \E ij \in TensorIndices : x.grad.val[ij[1]][ij[2]].num # 0

=============================================================================
